---- MODULE Spec2Model ----
(***************************************************************************)
(* The lookahead scheduler of the metronome (src/services/audioEngine.ts): *)
(* class AudioEngine, the host timer facility it arms timers on, and the   *)
(* audio clock it reads.                                                    *)
(*                                                                         *)
(* Time is counted in ticks of 0.05 s of the audio clock, so the 0.1 s     *)
(* schedule-ahead window and the 0.1 s lead-in are two ticks each and      *)
(* 60.0 seconds are 1200 ticks; 60.0 / bpm is rounded down to a whole     *)
(* tick (the code rounds it to a double).                                  *)
(***************************************************************************)
EXTENDS Integers, Sequences, FiniteSets, TLC

VARIABLES
    \* fields of AudioEngine
    audioContext,           \* "null", or the state of the created context
    isPlaying,
    nextNoteTime,
    currentBeat,
    barCount,
    timerID,                \* 0 is undefined
    onBeatCallback,
    onBpmChangeCallback,
    bpm,
    beatsPerBar,
    increaseAmount,
    increaseIntervalBars,
    maxBpm,
    engineSoundType,        \* soundType of the engine of src/unnamed/part_003
    \* the host
    now,                    \* audioContext.currentTime
    pollTimers,             \* ids of the pending window.setTimeout(scheduler) timers
    beatTimers,             \* pending one-shot beat notifications, in arming order
    pc,                     \* "idle"; "loop": in scheduler()'s while loop; "callback"
    \* history
    calls,                  \* calls made on the engine's interface so far
    lastCall,               \* the last of them, "host" once the host has run a task
    emitCount,              \* notes handed to the sound backend since the last start()
    lastNote,               \* the last of them
    bpmChanges,             \* onBpmChangeCallback deliveries since the last start()
    reportedTo,             \* the callback the last of them went to
    touched,                \* setSettings was called since the last start()
    bpbChanged,             \* ... and changed beatsPerBar
    startBpm,               \* bpm when the last start() ran, 0 once touched
    startTime,              \* currentTime when it ran, 0 once touched
    delivered,              \* the last invocation of a beat callback
    returned,               \* what the last toggle() returned
    sound,                  \* what the sound backend was asked to play last
    \* state of the App component (src/unnamed/part_000)
    settings,               \* the PracticeSettings object
    soundType,
    currentBpm,
    appIsPlaying,           \* App's isPlaying
    \* the user's side of the App
    alerts,                 \* alert() dialogs shown so far
    download,               \* the text of the last preset file exported
    exported,               \* settings and soundType when it was exported
    imported,               \* the text of the last preset file imported
    \* state of the App component of src/App.tsx, besides the above
    appCurrentBeat,         \* App's currentBeat, the beat on display
    updates,                \* state updates requested and not yet rendered
    effect,                 \* the settings effect of the last render, pending
    \* state of the TempoRangeCircle component
    dragging,               \* "start", "max" or "null"
    pointer                 \* where the last move of the pointer went, see below

engineVars ==
    <<audioContext, isPlaying, nextNoteTime, currentBeat, barCount, timerID,
      onBeatCallback, onBpmChangeCallback, bpm, beatsPerBar, increaseAmount,
      increaseIntervalBars, maxBpm, engineSoundType>>

hostVars == <<now, pollTimers, beatTimers, pc>>

historyVars ==
    <<calls, lastCall, emitCount, lastNote, bpmChanges, reportedTo, touched,
      bpbChanged,
      startBpm, startTime, delivered, returned, sound>>

reactVars == <<appCurrentBeat, updates, effect>>

circleVars == <<dragging, pointer>>

appVars ==
    <<settings, soundType, currentBpm, appIsPlaying, alerts, download,
      exported, imported, reactVars, circleVars>>

vars == <<engineVars, hostVars, historyVars, appVars>>

----------------------------------------------------------------------------
\* Bounds of the exploration.

MaxTime == 7
MaxCalls == 4

\* Program constants, in ticks.
scheduleAheadTime == 2
LeadIn == 2
SixtySeconds == 1200

\* The values setSettings is called with: a tempo below and one above the
\* ceiling, and a ramp that reaches the ceiling in its second step
\* (300, 420, 500, 500, ...).
Tempos == {300, 600}
BeatsPerBarChoices == {1, 3}
RampAmounts == {0, 120}
RampIntervals == {0, 1, 2}
Ceilings == {500}

\* Without a ramp amount nextNote() reads no more of the interval than its
\* sign, so one positive interval stands for all of them there; and a bar of
\* three beats at the lower tempo does not end within MaxTime, so its ramp
\* settings are never read and one pair of them stands for all.
SettingsChoices ==
    {s \in Tempos \X BeatsPerBarChoices \X RampAmounts \X RampIntervals \X Ceilings :
        /\ s[3] > 0 \/ s[4] <= 1
        /\ s[2] = 1 \/ s[1] = 600 \/ (s[3] = 0 /\ s[4] = 0)}

\* Two subscribers.  Which of the two is installed first makes no difference,
\* and installing the installed one again changes nothing: a registration
\* installs the one that is not installed.
NoCallback == "null"
NewCallback(installed) == IF installed = "c1" THEN "c2" ELSE "c1"

NoNote == [beat |-> -1, time |-> -1]
NoSound == [type |-> "none", voices |-> <<>>]
NoDelivery == [beat |-> -1, time |-> -1, to |-> NoCallback]

\* No state update waits for the next render.
NoUpdates == [currentBpm |-> <<>>, isPlaying |-> <<>>, currentBeat |-> <<>>]

\* What a registered tempo-changed callback does when it is invoked: nothing
\* to the engine, or a call of stop().
CallbackActs == {"return", "stop"}

Min(a, b) == IF a < b THEN a ELSE b
Max(a, b) == IF a > b THEN a ELSE b

----------------------------------------------------------------------------
\* The engine as one value, so that a handler's calls compose.

Engine ==
    [audioContext |-> audioContext, isPlaying |-> isPlaying,
     nextNoteTime |-> nextNoteTime, currentBeat |-> currentBeat,
     barCount |-> barCount, timerID |-> timerID,
     onBeatCallback |-> onBeatCallback,
     onBpmChangeCallback |-> onBpmChangeCallback, bpm |-> bpm,
     beatsPerBar |-> beatsPerBar, increaseAmount |-> increaseAmount,
     increaseIntervalBars |-> increaseIntervalBars, maxBpm |-> maxBpm,
     soundType |-> engineSoundType, sound |-> sound,
     pollTimers |-> pollTimers, beatTimers |-> beatTimers, pc |-> pc,
     emitCount |-> emitCount, lastNote |-> lastNote,
     bpmChanges |-> bpmChanges, reportedTo |-> reportedTo,
     touched |-> touched,
     bpbChanged |-> bpbChanged, startBpm |-> startBpm,
     startTime |-> startTime]

Commit(e) ==
    /\ audioContext' = e.audioContext
    /\ isPlaying' = e.isPlaying
    /\ nextNoteTime' = e.nextNoteTime
    /\ currentBeat' = e.currentBeat
    /\ barCount' = e.barCount
    /\ timerID' = e.timerID
    /\ onBeatCallback' = e.onBeatCallback
    /\ onBpmChangeCallback' = e.onBpmChangeCallback
    /\ bpm' = e.bpm
    /\ beatsPerBar' = e.beatsPerBar
    /\ increaseAmount' = e.increaseAmount
    /\ increaseIntervalBars' = e.increaseIntervalBars
    /\ maxBpm' = e.maxBpm
    /\ engineSoundType' = e.soundType
    /\ sound' = e.sound
    /\ pollTimers' = e.pollTimers
    /\ beatTimers' = e.beatTimers
    /\ pc' = e.pc
    /\ emitCount' = e.emitCount
    /\ lastNote' = e.lastNote
    /\ bpmChanges' = e.bpmChanges
    /\ reportedTo' = e.reportedTo
    /\ touched' = e.touched
    /\ bpbChanged' = e.bpbChanged
    /\ startBpm' = e.startBpm
    /\ startTime' = e.startTime

----------------------------------------------------------------------------
\* AudioEngine's methods.

\* setSettings() that also starts the bar anew.
setSettings_RestartsBar(e, s) ==
    [e EXCEPT !.bpm = s[1], !.beatsPerBar = s[2], !.increaseAmount = s[3],
              !.increaseIntervalBars = s[4], !.maxBpm = s[5],
              !.currentBeat = 0,
              !.touched = TRUE, !.startBpm = 0, !.startTime = 0,
              !.bpbChanged = @ \/ s[2] # e.beatsPerBar]

setSettings(e, s) ==
    [e EXCEPT !.bpm = s[1], !.beatsPerBar = s[2], !.increaseAmount = s[3],
              !.increaseIntervalBars = s[4], !.maxBpm = s[5],
              !.touched = TRUE, !.startBpm = 0, !.startTime = 0,
              !.bpbChanged = @ \/ s[2] # e.beatsPerBar]

\* stop() that also cancels the pending beat notifications.
stop_CancelsNotifications(e) ==
    [e EXCEPT !.isPlaying = FALSE,
              !.pollTimers = IF e.timerID # 0 THEN @ \ {e.timerID} ELSE @,
              !.beatTimers = <<>>]

stop(e) ==
    [e EXCEPT !.isPlaying = FALSE,
              !.pollTimers = IF e.timerID # 0 THEN @ \ {e.timerID} ELSE @]

\* start() without its first line.
start_NoGuard(e, created) ==
    [e EXCEPT !.pc = "loop",
              !.audioContext = IF @ = "null" THEN created ELSE @,
              !.isPlaying = TRUE,
              !.currentBeat = 0,
              !.barCount = 0,
              !.nextNoteTime = now + LeadIn,
              !.emitCount = 0, !.lastNote = NoNote, !.sound = NoSound,
              !.bpmChanges = 0, !.reportedTo = NoCallback,
              !.touched = FALSE, !.bpbChanged = FALSE,
              !.startBpm = e.bpm, !.startTime = now]

\* start() that resumes at the beat and bar the last run stopped at.
start_KeepsCursor(e, created) ==
    IF e.isPlaying THEN e
    ELSE [e EXCEPT !.pc = "loop",
                   !.audioContext = IF @ = "null" THEN created ELSE @,
                   !.isPlaying = TRUE,
                   !.nextNoteTime = now + LeadIn,
                   !.emitCount = 0, !.lastNote = NoNote, !.sound = NoSound,
                   !.bpmChanges = 0, !.reportedTo = NoCallback,
                   !.touched = FALSE, !.bpbChanged = FALSE,
                   !.startBpm = e.bpm, !.startTime = now]

\* start() whose init() constructs a context on every call.
start_NewContext(e, created) ==
    IF e.isPlaying THEN e
    ELSE [e EXCEPT !.pc = "loop",
                   !.audioContext = created,
                   !.isPlaying = TRUE,
                   !.currentBeat = 0,
                   !.barCount = 0,
                   !.nextNoteTime = now + LeadIn,
                   !.emitCount = 0, !.lastNote = NoNote, !.sound = NoSound,
                   !.bpmChanges = 0, !.reportedTo = NoCallback,
                   !.touched = FALSE, !.bpbChanged = FALSE,
                   !.startBpm = e.bpm, !.startTime = now]

\* new AudioContext() comes up "running" or, under an autoplay policy,
\* "suspended"; start() asks a suspended context to resume().  Where the
\* host has no AudioContext the constructor throws ("unavailable"): start()
\* is left from init(), before isPlaying is assigned.
start(e, created) ==
    IF e.isPlaying THEN e
    ELSE IF e.audioContext = "null" /\ created = "unavailable" THEN e
    ELSE [e EXCEPT !.pc = "loop",
                   !.audioContext = IF @ = "null" THEN created ELSE @,
                   !.isPlaying = TRUE,
                   !.currentBeat = 0,
                   !.barCount = 0,
                   !.nextNoteTime = now + LeadIn,
                   !.emitCount = 0, !.lastNote = NoNote, !.sound = NoSound,
                   !.bpmChanges = 0, !.reportedTo = NoCallback,
                   !.touched = FALSE, !.bpbChanged = FALSE,
                   !.startBpm = e.bpm, !.startTime = now]

\* The callback registered with setOnBpmChange, invoked with the new bpm: it
\* returns into handleSpeedIncrease, nextNote and the while loop.
onBpmChange(e, cb) ==
    LET e1 == [e EXCEPT !.bpmChanges = @ + 1,
                        !.reportedTo = e.onBpmChangeCallback,
                        !.pc = "loop"]
    IN
    IF cb = "stop" THEN stop(e1) ELSE e1

\* toggle() that starts the engine whatever its state.
toggle_StartsOnly(e, created) == start(e, created)

\* toggle(), what it does to the engine; it returns the isPlaying it leaves.
toggle(e, created) ==
    IF e.isPlaying THEN stop(e) ELSE start(e, created)

\* handleSpeedIncrease() without the clamp to maxBpm.
handleSpeedIncrease_NoClamp(e) ==
    LET newBpm == e.bpm + e.increaseAmount IN
    IF newBpm # e.bpm
    THEN LET e1 == [e EXCEPT !.bpm = newBpm] IN
         IF e1.onBpmChangeCallback # NoCallback
         THEN [e1 EXCEPT !.pc = "callback"]
         ELSE e1
    ELSE e

\* handleSpeedIncrease() that reports the tempo also when it did not change.
handleSpeedIncrease_AlwaysReports(e) ==
    LET newBpm == Min(e.bpm + e.increaseAmount, e.maxBpm)
        e1 == [e EXCEPT !.bpm = newBpm]
    IN  IF e1.onBpmChangeCallback # NoCallback
        THEN [e1 EXCEPT !.pc = "callback"]
        ELSE e1

\* handleSpeedIncrease() that never lowers the tempo.
handleSpeedIncrease_NeverLowers(e) ==
    LET newBpm == Max(e.bpm, Min(e.bpm + e.increaseAmount, e.maxBpm)) IN
    IF newBpm # e.bpm
    THEN LET e1 == [e EXCEPT !.bpm = newBpm] IN
         IF e1.onBpmChangeCallback # NoCallback
         THEN [e1 EXCEPT !.pc = "callback"]
         ELSE e1
    ELSE e

handleSpeedIncrease(e) ==
    LET newBpm == Min(e.bpm + e.increaseAmount, e.maxBpm) IN
    IF newBpm # e.bpm
    THEN LET e1 == [e EXCEPT !.bpm = newBpm] IN
         IF e1.onBpmChangeCallback # NoCallback
         THEN [e1 EXCEPT !.pc = "callback"]
         ELSE e1
    ELSE e

\* 60 / bpm taken in whole seconds.
SecondsPerBeat_WholeSeconds(tempo) == (60 \div tempo) * 20

SecondsPerBeat(tempo) == SixtySeconds \div tempo

\* nextNote() whose ramp test reads increaseAmount >= 0.
nextNote_RampsAtZero(e) ==
    LET secondsPerBeat == SecondsPerBeat(e.bpm)
        e1 == [e EXCEPT !.nextNoteTime = @ + secondsPerBeat,
                        !.currentBeat = @ + 1]
    IN  IF e1.currentBeat = e1.beatsPerBar
        THEN LET e2 == [e1 EXCEPT !.currentBeat = 0, !.barCount = @ + 1] IN
             IF /\ e2.increaseAmount >= 0
                /\ e2.increaseIntervalBars > 0
                /\ e2.barCount % e2.increaseIntervalBars = 0
             THEN handleSpeedIncrease(e2)
             ELSE e2
        ELSE e1

\* nextNote() that wraps one beat late (currentBeat > beatsPerBar).
nextNote_LateWrap(e) ==
    LET secondsPerBeat == SecondsPerBeat(e.bpm)
        e1 == [e EXCEPT !.nextNoteTime = @ + secondsPerBeat,
                        !.currentBeat = @ + 1]
    IN  IF e1.currentBeat > e1.beatsPerBar
        THEN LET e2 == [e1 EXCEPT !.currentBeat = 0, !.barCount = @ + 1] IN
             IF /\ e2.increaseAmount > 0
                /\ e2.increaseIntervalBars > 0
                /\ e2.barCount % e2.increaseIntervalBars = 0
             THEN handleSpeedIncrease(e2)
             ELSE e2
        ELSE e1

\* nextNote() that takes a ramp step at every bar, whatever the interval.
nextNote_RampsEveryBar(e) ==
    LET secondsPerBeat == SecondsPerBeat(e.bpm)
        e1 == [e EXCEPT !.nextNoteTime = @ + secondsPerBeat,
                        !.currentBeat = @ + 1]
    IN  IF e1.currentBeat = e1.beatsPerBar
        THEN LET e2 == [e1 EXCEPT !.currentBeat = 0, !.barCount = @ + 1] IN
             IF /\ e2.increaseAmount > 0
                /\ e2.increaseIntervalBars > 0
             THEN handleSpeedIncrease(e2)
             ELSE e2
        ELSE e1

\* nextNote() that reads an interval of 0 as "every bar".
nextNote_ZeroIsEveryBar(e) ==
    LET secondsPerBeat == SecondsPerBeat(e.bpm)
        e1 == [e EXCEPT !.nextNoteTime = @ + secondsPerBeat,
                        !.currentBeat = @ + 1]
    IN  IF e1.currentBeat = e1.beatsPerBar
        THEN LET e2 == [e1 EXCEPT !.currentBeat = 0, !.barCount = @ + 1] IN
             IF /\ e2.increaseAmount > 0
                /\ \/ e2.increaseIntervalBars = 0
                   \/ e2.barCount % e2.increaseIntervalBars = 0
             THEN handleSpeedIncrease(e2)
             ELSE e2
        ELSE e1

\* nextNote() that advances by the tempo the ramp step leaves.
nextNote_AdvancesAfterRamp(e) ==
    LET e1 == [e EXCEPT !.currentBeat = @ + 1]
        e3 == IF e1.currentBeat = e1.beatsPerBar
              THEN LET e2 == [e1 EXCEPT !.currentBeat = 0, !.barCount = @ + 1] IN
                   IF /\ e2.increaseAmount > 0
                      /\ e2.increaseIntervalBars > 0
                      /\ e2.barCount % e2.increaseIntervalBars = 0
                   THEN handleSpeedIncrease(e2)
                   ELSE e2
              ELSE e1
    IN  [e3 EXCEPT !.nextNoteTime = @ + SecondsPerBeat(e3.bpm)]

\* nextNote() that counts a bar at every beat.
nextNote_CountsEveryBeat(e) ==
    LET secondsPerBeat == SecondsPerBeat(e.bpm)
        e1 == [e EXCEPT !.nextNoteTime = @ + secondsPerBeat,
                        !.currentBeat = @ + 1,
                        !.barCount = @ + 1]
    IN  IF e1.currentBeat = e1.beatsPerBar
        THEN LET e2 == [e1 EXCEPT !.currentBeat = 0] IN
             IF /\ e2.increaseAmount > 0
                /\ e2.increaseIntervalBars > 0
                /\ e2.barCount % e2.increaseIntervalBars = 0
             THEN handleSpeedIncrease(e2)
             ELSE e2
        ELSE e1

nextNote(e) ==
    LET secondsPerBeat == SecondsPerBeat(e.bpm)
        e1 == [e EXCEPT !.nextNoteTime = @ + secondsPerBeat,
                        !.currentBeat = @ + 1]
    IN  IF e1.currentBeat = e1.beatsPerBar
        THEN LET e2 == [e1 EXCEPT !.currentBeat = 0, !.barCount = @ + 1] IN
             IF /\ e2.increaseAmount > 0
                /\ e2.increaseIntervalBars > 0
                /\ e2.barCount % e2.increaseIntervalBars = 0
             THEN handleSpeedIncrease(e2)
             ELSE e2
        ELSE e1

\* What the sound backend is asked to play, node by node: the source, its
\* frequency and the sweep of it, the filter's frequency, the gain in tenths,
\* the offset from the note's time in ticks, the duration in milliseconds.
Voice(source, frequency, sweepTo, sweepTime, filter, gain, offset, duration) ==
    [source |-> source, frequency |-> frequency, sweepTo |-> sweepTo,
     sweepTime |-> sweepTime, filter |-> filter, gain |-> gain,
     offset |-> offset, duration |-> duration]

playBeep(beatNumber) ==
    IF beatNumber = 0
    THEN <<Voice("sine", 1000, 0, 0, 0, 10, 0, 100)>>
    ELSE <<Voice("sine", 800, 0, 0, 0, 6, 0, 100)>>

playClick(beatNumber) ==
    IF beatNumber = 0
    THEN <<Voice("sine", 1500, 0, 0, 0, 8, 0, 20)>>
    ELSE <<Voice("sine", 1200, 0, 0, 0, 5, 0, 20)>>

playWoodblock(beatNumber) ==
    IF beatNumber = 0
    THEN <<Voice("square", 800, 0, 0, 1500, 7, 0, 50)>>
    ELSE <<Voice("square", 600, 0, 0, 1200, 5, 0, 50)>>

playCowbell(beatNumber) ==
    IF beatNumber = 0
    THEN <<Voice("square", 540, 0, 0, 800, 6, 0, 80),
           Voice("square", 800, 0, 0, 800, 6, 0, 80)>>
    ELSE <<Voice("square", 500, 0, 0, 800, 4, 0, 80),
           Voice("square", 750, 0, 0, 800, 4, 0, 80)>>

playKick(beatNumber) ==
    IF beatNumber = 0
    THEN <<Voice("sine", 150, 50, 100, 0, 12, 0, 150)>>
    ELSE <<Voice("sine", 120, 40, 80, 0, 8, 0, 150)>>

playSnare(beatNumber) ==
    LET gain == IF beatNumber = 0 THEN 8 ELSE 5 IN
    <<Voice("noise", 0, 0, 0, 1000, gain, 0, 150),
      Voice("sine", 200, 0, 0, 0, gain, 0, 80)>>

playHiHat(offset, volume) == <<Voice("noise", 0, 0, 0, 7000, volume, offset, 50)>>

playDrumset(beatNumber, tempo) ==
    LET eighthNoteTime == SecondsPerBeat(tempo) \div 2 IN
    (IF beatNumber = 0 \/ beatNumber = 2
     THEN <<Voice("sine", 150, 50, 100, 0, 12, 0, 150)>>
     ELSE <<>>)
    \o (IF beatNumber = 1 \/ beatNumber = 3
        THEN <<Voice("noise", 0, 0, 0, 1000, 8, 0, 150),
               Voice("sine", 200, 0, 0, 0, 8, 0, 80)>>
        ELSE <<>>)
    \o playHiHat(0, 3)
    \o playHiHat(eighthNoteTime, 2)

\* scheduleNote()'s switch on soundType.
Sound(type, beatNumber, tempo) ==
    [type |-> type,
     voices |->
        CASE type = "beep" -> playBeep(beatNumber)
          [] type = "click" -> playClick(beatNumber)
          [] type = "woodblock" -> playWoodblock(beatNumber)
          [] type = "cowbell" -> playCowbell(beatNumber)
          [] type = "kick" -> playKick(beatNumber)
          [] type = "snare" -> playSnare(beatNumber)
          [] type = "drumset" -> playDrumset(beatNumber, tempo)
          [] OTHER -> <<>>]

\* scheduleNote() that hands drawTime to setTimeout as it is.
scheduleNote_RawDelay(e, beatNumber, time) ==
    IF e.audioContext = "null" THEN e
    ELSE LET drawTime == (time - now) * 50
             e1 == IF e.onBeatCallback # NoCallback
                   THEN [e EXCEPT !.beatTimers =
                            Append(@, [beat |-> beatNumber, time |-> time,
                                       delay |-> drawTime])]
                   ELSE e
         IN  [e1 EXCEPT !.emitCount = @ + 1,
                        !.lastNote = [beat |-> beatNumber, time |-> time],
                        !.sound = Sound(e.soundType, beatNumber, e.bpm)]

\* The one-shot notification timer is armed first, then the oscillator is
\* started at `time`.  drawTime is in milliseconds: 50 per tick.
scheduleNote(e, beatNumber, time) ==
    IF e.audioContext = "null" THEN e
    ELSE LET drawTime == (time - now) * 50
             e1 == IF e.onBeatCallback # NoCallback
                   THEN [e EXCEPT !.beatTimers =
                            Append(@, [beat |-> beatNumber, time |-> time,
                                       delay |-> Max(0, drawTime)])]
                   ELSE e
         IN  [e1 EXCEPT !.emitCount = @ + 1,
                        !.lastNote = [beat |-> beatNumber, time |-> time],
                        !.sound = Sound(e.soundType, beatNumber, e.bpm)]

\* The places of scheduleNote() where the sound backend can throw: before the
\* oscillator is started, and after.
ThrowPoints == {"createOscillator", "exponentialRampToValueAtTime"}

\* scheduleNote() when the sound backend throws at `at`: the notification
\* timer is armed by then, the exception leaves scheduleNote() and
\* scheduler(), which catch nothing.
scheduleNoteThrows(e, beatNumber, time, at) ==
    LET drawTime == (time - now) * 50
        e1 == IF e.onBeatCallback # NoCallback
              THEN [e EXCEPT !.beatTimers =
                       Append(@, [beat |-> beatNumber, time |-> time,
                                  delay |-> Max(0, drawTime)])]
              ELSE e
        e2 == IF at = "createOscillator"
              THEN e1
              ELSE [e1 EXCEPT !.emitCount = @ + 1,
                              !.lastNote = [beat |-> beatNumber, time |-> time],
                              !.sound = Sound(e.soundType, beatNumber, e.bpm)]
    IN  [e2 EXCEPT !.pc = "idle"]

\* A loop condition without the window: only notes whose time has passed.
NoteDue_NoWindow(e) == e.nextNoteTime < now

\* scheduler()'s loop condition.
NoteDue(e) == e.nextNoteTime < now + scheduleAheadTime

\* window.setTimeout hands out an id no pending timer has.
FreshTimer(pending) ==
    CHOOSE i \in 1..(Cardinality(pending) + 1) :
        i \notin pending /\ \A j \in 1..(i - 1) : j \in pending

\* scheduler(), entered: its guard.
schedulerEnter(e) ==
    IF ~e.isPlaying \/ e.audioContext = "null" THEN e ELSE [e EXCEPT !.pc = "loop"]

\* A turn that catches up after a late poll: a note already 0.1 s in the past
\* is passed over.
schedulerTurn_SkipsLate(e) ==
    IF e.nextNoteTime + 2 <= now
    THEN nextNote(e)
    ELSE nextNote(scheduleNote(e, e.currentBeat, e.nextNoteTime))

\* A turn that neither emits nor advances.
schedulerTurn_Idles(e) == e

\* scheduler(), one turn of its while loop.
schedulerTurn(e) == nextNote(scheduleNote(e, e.currentBeat, e.nextNoteTime))

\* scheduler() that returns without arming the next poll.
schedulerArm_Once(e) == [e EXCEPT !.pc = "idle"]

\* scheduler(), past the loop: the next poll is armed.
schedulerArm(e) ==
    LET id == FreshTimer(e.pollTimers) IN
    [e EXCEPT !.pollTimers = @ \cup {id}, !.timerID = id, !.pc = "idle"]

----------------------------------------------------------------------------
\* JavaScript values, as far as presets hold them: undefined, null, numbers,
\* strings, and objects with such values as properties.

NoProps == [k \in {} |-> 0]

Undefined == [type |-> "undefined", num |-> 0, str |-> "", props |-> NoProps]
Null == [type |-> "null", num |-> 0, str |-> "", props |-> NoProps]
Num(n) == [type |-> "number", num |-> n, str |-> "", props |-> NoProps]
Str(x) == [type |-> "string", num |-> 0, str |-> x, props |-> NoProps]
Obj(ps) == [type |-> "object", num |-> 0, str |-> "", props |-> ps]

\* if (v)
Truthy(v) ==
    CASE v.type = "object" -> TRUE
      [] v.type = "number" -> v.num # 0
      [] v.type = "string" -> v.str # ""
      [] OTHER -> FALSE

\* v.k throws a TypeError on null and undefined.
ReadThrows(v) == v.type \in {"null", "undefined"}

\* v.k
Get(v, k) ==
    IF v.type = "object" /\ k \in DOMAIN v.props THEN v.props[k] ELSE Undefined

\* const { k: _, ...rest } = v, for v an object or a number: the own
\* enumerable properties of v but k (a number has none).
Rest(v, k) ==
    IF v.type = "object"
    THEN [j \in (DOMAIN v.props) \ {k} |-> v.props[j]]
    ELSE NoProps

\* { ...o, k: v }
Spread(o, k, v) == [j \in (DOMAIN o) \cup {k} |-> IF j = k THEN v ELSE o[j]]

----------------------------------------------------------------------------
\* JSON text: malformed, or a tree of null, numbers, strings and objects, an
\* object being the sequence of its members as written.

JNull == [type |-> "null", num |-> 0, str |-> "", members |-> <<>>]
JNum(n) == [type |-> "number", num |-> n, str |-> "", members |-> <<>>]
JStr(x) == [type |-> "string", num |-> 0, str |-> x, members |-> <<>>]
JObj(ms) == [type |-> "object", num |-> 0, str |-> "", members |-> ms]
Member(k, t) == [key |-> k, value |-> t]

Malformed == [syntax |-> "malformed", root |-> JNull]
Json(t) == [syntax |-> "json", root |-> t]
NoFile == [syntax |-> "none", root |-> JNull]

\* The order in which the properties of the objects at hand are written.
KeyOrder ==
    <<"name", "settings", "startBpm", "maxBpm", "increaseAmount",
      "increaseIntervalBars", "beatsPerBar", "soundType">>

\* JSON.stringify(v): a property whose value is undefined is left out.
RECURSIVE TreeOf(_)
TreeOf(v) ==
    CASE v.type = "number" -> JNum(v.num)
      [] v.type = "string" -> JStr(v.str)
      [] v.type = "object" ->
            LET written(k) ==
                    k \in DOMAIN v.props /\ v.props[k].type # "undefined"
                RECURSIVE Write(_)
                Write(i) ==
                    IF i > Len(KeyOrder) THEN <<>>
                    ELSE IF written(KeyOrder[i])
                         THEN <<Member(KeyOrder[i], TreeOf(v.props[KeyOrder[i]]))>>
                                  \o Write(i + 1)
                         ELSE Write(i + 1)
            IN  JObj(Write(1))
      [] OTHER -> JNull

Stringify(v) == Json(TreeOf(v))

\* JSON.parse(text), for well-formed text: of two members with one key the
\* later one counts.
RECURSIVE ValueOf(_)
ValueOf(t) ==
    CASE t.type = "number" -> Num(t.num)
      [] t.type = "string" -> Str(t.str)
      [] t.type = "object" ->
            LET ms == t.members
                keys == {ms[i].key : i \in 1..Len(ms)}
                last(k) == CHOOSE i \in 1..Len(ms) :
                              /\ ms[i].key = k
                              /\ \A j \in (i + 1)..Len(ms) : ms[j].key # k
            IN  Obj([k \in keys |-> ValueOf(ms[last(k)].value)])
      [] OTHER -> Null

ParseThrows(text) == text.syntax # "json"
Parse(text) == ValueOf(text.root)

----------------------------------------------------------------------------
\* The App component (src/unnamed/part_000): its state as one value, and its
\* preset handlers.

SoundTypes ==
    {"beep", "click", "woodblock", "cowbell", "kick", "snare", "drumset"}

\* { startBpm, maxBpm, increaseAmount, increaseIntervalBars, beatsPerBar }
PracticeSettings(first, ceiling, amount, interval, beats) ==
    [k \in {"startBpm", "maxBpm", "increaseAmount", "increaseIntervalBars",
            "beatsPerBar"} |->
        CASE k = "startBpm" -> Num(first)
          [] k = "maxBpm" -> Num(ceiling)
          [] k = "increaseAmount" -> Num(amount)
          [] k = "increaseIntervalBars" -> Num(interval)
          [] OTHER -> Num(beats)]

App ==
    [settings |-> settings, soundType |-> soundType,
     currentBpm |-> currentBpm, isPlaying |-> appIsPlaying,
     alerts |-> alerts]

CommitApp(a) ==
    /\ settings' = a.settings
    /\ soundType' = a.soundType
    /\ currentBpm' = a.currentBpm
    /\ appIsPlaying' = a.isPlaying
    /\ alerts' = a.alerts

\* The name of a preset; the date in it is left out.
PresetName == "Accelerando_Preset"

\* exportPreset() that writes the settings without the sound variant.
exportPreset_SettingsOnly(a) ==
    LET preset ==
            Obj([k \in {"name", "settings"} |->
                    IF k = "name" THEN Str(PresetName) ELSE Obj(a.settings)])
    IN  Stringify(preset)

\* exportPreset(): the text put into the file.
exportPreset(a) ==
    LET preset ==
            Obj([k \in {"name", "settings"} |->
                    IF k = "name"
                    THEN Str(PresetName)
                    ELSE Obj(Spread(a.settings, "soundType", a.soundType))])
    IN  Stringify(preset)

\* A catch block that only logs.
importFailed_LogOnly(a) == a

\* The catch block of reader.onload: console.error and alert.
importFailed(a) == [a EXCEPT !.alerts = @ + 1]

\* importPreset() without the test of importedSound.
importPreset_AlwaysSetsSound(a, text) ==
    IF ParseThrows(text) THEN importFailed(a)
    ELSE LET preset == Parse(text) IN
         IF ReadThrows(preset) THEN importFailed(a)
         ELSE IF ~Truthy(Get(preset, "settings")) THEN a
         ELSE LET importedSound == Get(Get(preset, "settings"), "soundType")
                  importedSettings == Rest(Get(preset, "settings"), "soundType")
                  a1 == [a EXCEPT !.settings = importedSettings,
                                  !.soundType = importedSound]
              IN  IF ~a.isPlaying
                  THEN [a1 EXCEPT !.currentBpm =
                                      Get(Obj(importedSettings), "startBpm")]
                  ELSE a1

\* importPreset(): reader.onload on the text of the chosen file.
importPreset(a, text) ==
    IF ParseThrows(text) THEN importFailed(a)
    ELSE LET preset == Parse(text) IN
         IF ReadThrows(preset) THEN importFailed(a)
         ELSE IF ~Truthy(Get(preset, "settings")) THEN a
         ELSE LET importedSound == Get(Get(preset, "settings"), "soundType")
                  importedSettings == Rest(Get(preset, "settings"), "soundType")
                  a1 == [a EXCEPT !.settings = importedSettings]
                  a2 == IF Truthy(importedSound)
                        THEN [a1 EXCEPT !.soundType = importedSound]
                        ELSE a1
              IN  IF ~a.isPlaying
                  THEN [a2 EXCEPT !.currentBpm =
                                      Get(Obj(importedSettings), "startBpm")]
                  ELSE a2

\* onStartBpmChange(v) of the tempo dial.
onStartBpmChange(a, v) ==
    LET a1 == [a EXCEPT !.settings = Spread(@, "startBpm", Num(v))] IN
    IF ~a.isPlaying THEN [a1 EXCEPT !.currentBpm = Num(v)] ELSE a1

----------------------------------------------------------------------------
Init ==
    /\ audioContext = "null"
    /\ isPlaying = FALSE
    /\ nextNoteTime = 0
    /\ currentBeat = 0
    /\ barCount = 0
    /\ timerID = 0
    /\ onBeatCallback = NoCallback
    /\ onBpmChangeCallback = NoCallback
    /\ bpm = 60
    /\ beatsPerBar = 4
    /\ increaseAmount = 0
    /\ increaseIntervalBars = 0
    /\ maxBpm = 200
    /\ engineSoundType = "beep"
    /\ sound = NoSound
    /\ now = 0
    /\ pollTimers = {}
    /\ beatTimers = <<>>
    /\ pc = "idle"
    /\ calls = 0
    /\ lastCall = "new"
    /\ emitCount = 0
    /\ lastNote = NoNote
    /\ bpmChanges = 0
    /\ reportedTo = NoCallback
    /\ touched = FALSE
    /\ bpbChanged = FALSE
    /\ startBpm = 60
    /\ startTime = 0
    /\ delivered = NoDelivery
    /\ returned = FALSE
    /\ settings = PracticeSettings(80, 200, 0, 4, 4)
    /\ soundType = Str("beep")
    /\ currentBpm = Num(80)
    /\ appIsPlaying = FALSE
    /\ alerts = 0
    /\ download = NoFile
    /\ exported = [settings |-> NoProps, soundType |-> Undefined]
    /\ imported = NoFile
    /\ appCurrentBeat = -1
    /\ updates = NoUpdates
    /\ effect = <<>>
    /\ dragging = "null"
    /\ pointer = 0

\* A call from outside, between two tasks of the host.
Call(name) ==
    /\ pc = "idle"
    /\ calls < MaxCalls
    /\ calls' = calls + 1
    /\ lastCall' = name
    /\ UNCHANGED <<returned, now, delivered, appVars>>

\* A task of the host, or the next step of the running one.
Step(at) ==
    /\ pc = at
    /\ lastCall' = "host"
    /\ UNCHANGED <<returned, now, calls, delivered, appVars>>

\* setSettings(bpm, beatsPerBar, increaseAmount, increaseIntervalBars, maxBpm)
SetSettings ==
    /\ Call("setSettings")
    /\ \E s \in SettingsChoices : Commit(setSettings(Engine, s))

SetOnBeat ==
    /\ Call("setOnBeat")
    /\ Commit([Engine EXCEPT !.onBeatCallback = NewCallback(@)])

SetOnBpmChange ==
    /\ Call("setOnBpmChange")
    /\ Commit([Engine EXCEPT !.onBpmChangeCallback = NewCallback(@)])

\* start(): when it does not return at once it ends in scheduler(), whose
\* guard passes (isPlaying was just set, the context exists).
Start ==
    /\ Call("start")
    /\ \E created \in {"running", "suspended"} : Commit(start(Engine, created))

Stop ==
    /\ Call("stop")
    /\ Commit(stop(Engine))

\* A pending poll timer fires: scheduler() is entered.
PollFire ==
    /\ Step("idle")
    /\ \E t \in pollTimers :
          Commit(schedulerEnter([Engine EXCEPT !.pollTimers = @ \ {t}]))

Drain ==
    /\ Step("loop")
    /\ NoteDue(Engine)
    /\ Commit(schedulerTurn(Engine))

\* The tempo-changed callback runs, inside the turn that ramped the tempo.
BpmChangeCallbackDoing(acts) ==
    /\ Step("callback")
    /\ \E cb \in acts : Commit(onBpmChange(Engine, cb))

BpmChangeCallback == BpmChangeCallbackDoing(CallbackActs)

PollArm ==
    /\ Step("loop")
    /\ ~NoteDue(Engine)
    /\ Commit(schedulerArm(Engine))

\* A beat notification that goes to the first callback ever registered.
BeatTimerFire_ToFirstSubscriber ==
    /\ pc = "idle"
    /\ beatTimers # <<>>
    /\ lastCall' = "onBeat"
    /\ delivered' = [beat |-> Head(beatTimers).beat,
                     time |-> Head(beatTimers).time,
                     to |-> "c1"]
    /\ Commit([Engine EXCEPT !.beatTimers = Tail(@)])
    /\ UNCHANGED <<returned, now, calls, appVars>>

\* A beat notification that fires between a ramp step and its report, as if
\* the timer's task could run inside the poll.
BeatTimerFire_InsidePoll ==
    /\ pc \in {"idle", "callback"}
    /\ beatTimers # <<>>
    /\ lastCall' = "onBeat"
    /\ delivered' = IF onBeatCallback # NoCallback
                    THEN [beat |-> Head(beatTimers).beat,
                          time |-> Head(beatTimers).time,
                          to |-> onBeatCallback]
                    ELSE delivered
    /\ Commit([Engine EXCEPT !.beatTimers = Tail(@)])
    /\ UNCHANGED <<returned, now, calls, appVars>>

\* The oldest pending beat notification fires: the callback registered by
\* then, if any, is invoked with the timer's beat and time.
BeatTimerFire ==
    /\ pc = "idle"
    /\ beatTimers # <<>>
    /\ lastCall' = "onBeat"
    /\ delivered' = IF onBeatCallback # NoCallback
                    THEN [beat |-> Head(beatTimers).beat,
                          time |-> Head(beatTimers).time,
                          to |-> onBeatCallback]
                    ELSE delivered
    /\ Commit([Engine EXCEPT !.beatTimers = Tail(@)])
    /\ UNCHANGED <<returned, now, calls, appVars>>

\* The audio clock of a running context moves on between two tasks.
TickUntil(end) ==
    /\ pc = "idle"
    /\ audioContext = "running"
    /\ now < end
    /\ now' = now + 1
    /\ lastCall' = "host"
    /\ Commit(Engine)
    /\ UNCHANGED <<returned, calls, delivered, appVars>>

Tick == TickUntil(MaxTime)

\* The host lets a suspended context run (the resume() start() asked for).
ContextResume ==
    /\ Step("idle")
    /\ audioContext = "suspended"
    /\ Commit([Engine EXCEPT !.audioContext = "running"])

Next ==
    \/ SetSettings
    \/ SetOnBeat
    \/ SetOnBpmChange
    \/ Start
    \/ Stop
    \/ PollFire
    \/ Drain
    \/ BpmChangeCallback
    \/ PollArm
    \/ BeatTimerFire
    \/ Tick
    \/ ContextResume

Spec == Init /\ [][Next]_vars

----------------------------------------------------------------------------
\* The polls of an engine that was configured while stopped: any of the
\* settings, with or without subscribers, then started and stopped.

InitPolls ==
    /\ audioContext = "null"
    /\ isPlaying = FALSE
    /\ nextNoteTime = 0
    /\ currentBeat = 0
    /\ barCount = 0
    /\ timerID = 0
    /\ onBeatCallback \in {NoCallback, "c1"}
    /\ onBpmChangeCallback \in {NoCallback, "c1"}
    /\ \E s \in SettingsChoices :
          /\ bpm = s[1]
          /\ beatsPerBar = s[2]
          /\ increaseAmount = s[3]
          /\ increaseIntervalBars = s[4]
          /\ maxBpm = s[5]
    /\ engineSoundType = "beep"
    /\ sound = NoSound
    /\ now = 0
    /\ pollTimers = {}
    /\ beatTimers = <<>>
    /\ pc = "idle"
    /\ calls = MaxCalls - 1
    /\ lastCall = "setSettings"
    /\ emitCount = 0
    /\ lastNote = NoNote
    /\ bpmChanges = 0
    /\ reportedTo = NoCallback
    /\ touched = TRUE
    /\ bpbChanged = FALSE
    /\ startBpm = 0
    /\ startTime = 0
    /\ delivered = NoDelivery
    /\ returned = FALSE
    /\ settings = PracticeSettings(80, 200, 0, 4, 4)
    /\ soundType = Str("beep")
    /\ currentBpm = Num(80)
    /\ appIsPlaying = FALSE
    /\ alerts = 0
    /\ download = NoFile
    /\ exported = [settings |-> NoProps, soundType |-> Undefined]
    /\ imported = NoFile
    /\ appCurrentBeat = -1
    /\ updates = NoUpdates
    /\ effect = <<>>
    /\ dragging = "null"
    /\ pointer = 0

NextPolls ==
    \/ Start
    \/ Stop
    \/ PollFire
    \/ Drain
    \/ BpmChangeCallback
    \/ PollArm
    \/ BeatTimerFire
    \/ Tick
    \/ ContextResume

\* The next step of a poll that is under way.
PollStep == Drain \/ BpmChangeCallback \/ PollArm

\* JavaScript runs a task to completion: a poll that is in its loop takes its
\* next turn, a callback that was invoked runs, and a loop whose condition
\* is false goes on to arm the timer and return.  Nothing is assumed of the
\* host's timers, of the clock or of the caller.
SpecRunToCompletion == InitPolls /\ [][NextPolls]_vars /\ WF_vars(PollStep)

\* The same engine on a host that keeps its promises: a task runs to
\* completion, an armed timer fires, a suspended context is resumed, and the
\* audio clock advances whatever the timers do (up to MaxTime).
SpecHostRuns ==
    /\ InitPolls
    /\ [][NextPolls]_vars
    /\ WF_vars(PollStep)
    /\ WF_vars(PollFire)
    /\ SF_vars(ContextResume)
    /\ SF_vars(Tick)

----------------------------------------------------------------------------
\* The engine driven through toggle() as well: configured while stopped, then
\* toggled, started and stopped.

InitToggle ==
    /\ audioContext = "null"
    /\ isPlaying = FALSE
    /\ nextNoteTime = 0
    /\ currentBeat = 0
    /\ barCount = 0
    /\ timerID = 0
    /\ onBeatCallback \in {NoCallback, "c1"}
    /\ onBpmChangeCallback \in {NoCallback, "c1"}
    /\ \E s \in SettingsChoices :
          /\ bpm = s[1]
          /\ beatsPerBar = s[2]
          /\ increaseAmount = s[3]
          /\ increaseIntervalBars = s[4]
          /\ maxBpm = s[5]
    /\ engineSoundType = "beep"
    /\ sound = NoSound
    /\ now = 0
    /\ pollTimers = {}
    /\ beatTimers = <<>>
    /\ pc = "idle"
    /\ calls = MaxCalls - 2
    /\ lastCall = "setSettings"
    /\ emitCount = 0
    /\ lastNote = NoNote
    /\ bpmChanges = 0
    /\ reportedTo = NoCallback
    /\ touched = TRUE
    /\ bpbChanged = FALSE
    /\ startBpm = 0
    /\ startTime = 0
    /\ delivered = NoDelivery
    /\ returned = FALSE
    /\ settings = PracticeSettings(80, 200, 0, 4, 4)
    /\ soundType = Str("beep")
    /\ currentBpm = Num(80)
    /\ appIsPlaying = FALSE
    /\ alerts = 0
    /\ download = NoFile
    /\ exported = [settings |-> NoProps, soundType |-> Undefined]
    /\ imported = NoFile
    /\ appCurrentBeat = -1
    /\ updates = NoUpdates
    /\ effect = <<>>
    /\ dragging = "null"
    /\ pointer = 0

\* toggle(): the value it returns is read when start() or stop() is back;
\* the first pass of scheduler() that start() ends in has no note due and
\* runs no callback, so isPlaying is by then what start() left.
Toggle ==
    /\ pc = "idle"
    /\ calls < MaxCalls
    /\ calls' = calls + 1
    /\ lastCall' = "toggle"
    /\ \E created \in {"running", "suspended"} :
          /\ Commit(toggle(Engine, created))
          /\ returned' = toggle(Engine, created).isPlaying
    /\ UNCHANGED <<now, delivered, appVars>>

NextToggle == Toggle \/ NextPolls

SpecToggle == InitToggle /\ [][NextToggle]_vars

----------------------------------------------------------------------------
\* The engine on a host whose audio facility fails: the sound backend can
\* throw while a note is emitted, and the AudioContext can be missing.

EmitThrows ==
    /\ pc = "loop"
    /\ NoteDue(Engine)
    /\ audioContext # "null"
    /\ lastCall' = "throw"
    /\ \E at \in ThrowPoints :
          Commit(scheduleNoteThrows(Engine, currentBeat, nextNoteTime, at))
    /\ UNCHANGED <<returned, now, calls, delivered, appVars>>

StartUnavailable ==
    /\ Call("start")
    /\ audioContext = "null"
    /\ Commit(start(Engine, "unavailable"))

NextFaulty ==
    \/ Next
    \/ EmitThrows
    \/ StartUnavailable

SpecFaulty == Init /\ [][NextFaulty]_vars

----------------------------------------------------------------------------
\* The preset handlers of the App component, on the App as the dials left it:
\* stopped, or playing with the engine just started.  A step is one handler;
\* the effects that hand the new state to the engine run with the next
\* render and are not part of it.

MaxAppCalls == 3

StartBpms == {80, 120}
AppRampAmounts == {0, 5}
AppBeatsPerBar == {3, 4}

FileSettings ==
    <<Member("startBpm", JNum(100)), Member("maxBpm", JNum(180)),
      Member("increaseAmount", JNum(2)),
      Member("increaseIntervalBars", JNum(8)),
      Member("beatsPerBar", JNum(6))>>

\* The files the user picks: text that is no JSON, JSON without a `settings`
\* object, and presets with and without `soundType`, whole and partial.
PresetFiles ==
    {Malformed,
     Json(JNull),
     Json(JObj(<<>>)),
     Json(JObj(<<Member("name", JStr("x"))>>)),
     Json(JObj(<<Member("settings", JNull)>>)),
     Json(JObj(<<Member("settings", JNum(5))>>)),
     Json(JObj(<<Member("settings", JObj(FileSettings))>>)),
     Json(JObj(<<Member("settings", JObj(<<Member("startBpm", JNum(100))>>))>>)),
     Json(JObj(<<Member("settings",
                        JObj(<<Member("startBpm", JNum(100)),
                               Member("soundType", JStr(""))>>))>>)),
     Json(JObj(<<Member("name", JStr("x")),
                 Member("settings",
                        JObj(FileSettings
                               \o <<Member("soundType", JStr("click"))>>))>>))}

InitPreset ==
    /\ \E sb \in StartBpms, ia \in AppRampAmounts, bpb \in AppBeatsPerBar :
          /\ settings = PracticeSettings(sb, 200, ia, 4, bpb)
          /\ currentBpm = Num(sb)
          /\ bpm = sb
          /\ beatsPerBar = bpb
          /\ increaseAmount = ia
    /\ increaseIntervalBars = 4
    /\ maxBpm = 200
    /\ soundType \in {Str(x) : x \in SoundTypes}
    /\ engineSoundType = soundType.str
    /\ sound = NoSound
    /\ appIsPlaying \in BOOLEAN
    /\ isPlaying = appIsPlaying
    /\ audioContext = IF appIsPlaying THEN "running" ELSE "null"
    /\ nextNoteTime = IF appIsPlaying THEN LeadIn ELSE 0
    /\ timerID = IF appIsPlaying THEN 1 ELSE 0
    /\ pollTimers = IF appIsPlaying THEN {1} ELSE {}
    /\ currentBeat = 0
    /\ barCount = 0
    /\ onBeatCallback = "c1"
    /\ onBpmChangeCallback = "c1"
    /\ now = 0
    /\ beatTimers = <<>>
    /\ pc = "idle"
    /\ calls = 0
    /\ lastCall = "new"
    /\ emitCount = 0
    /\ lastNote = NoNote
    /\ bpmChanges = 0
    /\ reportedTo = NoCallback
    /\ touched = TRUE
    /\ bpbChanged = FALSE
    /\ startBpm = 0
    /\ startTime = 0
    /\ delivered = NoDelivery
    /\ returned = FALSE
    /\ alerts = 0
    /\ download = NoFile
    /\ exported = [settings |-> NoProps, soundType |-> Undefined]
    /\ imported = NoFile
    /\ appCurrentBeat = -1
    /\ updates = NoUpdates
    /\ effect = <<>>
    /\ dragging = "null"
    /\ pointer = 0

\* A handler of the App component runs.
AppCall(name) ==
    /\ calls < MaxAppCalls
    /\ calls' = calls + 1
    /\ lastCall' = name
    /\ UNCHANGED <<engineVars, hostVars, emitCount, lastNote, bpmChanges,
                   reportedTo, touched, bpbChanged, startBpm, startTime, delivered,
                   sound, returned, reactVars, circleVars>>

ExportPreset ==
    /\ AppCall("exportPreset")
    /\ download' = exportPreset(App)
    /\ exported' = [settings |-> settings, soundType |-> soundType]
    /\ UNCHANGED <<settings, soundType, currentBpm, appIsPlaying, alerts,
                   imported>>

\* The user picks a file, one of PresetFiles or the one exported last.
ImportPreset ==
    /\ AppCall("importPreset")
    /\ \E text \in PresetFiles \cup ({download} \ {NoFile}) :
          /\ imported' = text
          /\ CommitApp(importPreset(App, text))
    /\ UNCHANGED <<download, exported>>

OnStartBpmChange ==
    /\ AppCall("onStartBpmChange")
    /\ \E v \in StartBpms : CommitApp(onStartBpmChange(App, v))
    /\ UNCHANGED <<download, exported, imported>>

NextPreset ==
    \/ ExportPreset
    \/ ImportPreset
    \/ OnStartBpmChange

SpecPreset == InitPreset /\ [][NextPreset]_vars

----------------------------------------------------------------------------
\* The engine of src/unnamed/part_003 with each of its sound variants: after
\* setSettings(600, beatsPerBar, 0, 0, 500) and setSoundType(variant), then
\* started, the variant changed at most once.

SoundBeatsPerBar == {1, 2, 3, 4, 5}

InitSound ==
    /\ audioContext = "null"
    /\ isPlaying = FALSE
    /\ nextNoteTime = 0
    /\ currentBeat = 0
    /\ barCount = 0
    /\ timerID = 0
    /\ onBeatCallback = NoCallback
    /\ onBpmChangeCallback = NoCallback
    /\ bpm = 600
    /\ beatsPerBar \in SoundBeatsPerBar
    /\ increaseAmount = 0
    /\ increaseIntervalBars = 0
    /\ maxBpm = 500
    /\ engineSoundType \in SoundTypes
    /\ sound = NoSound
    /\ now = 0
    /\ pollTimers = {}
    /\ beatTimers = <<>>
    /\ pc = "idle"
    /\ calls = MaxCalls - 2
    /\ lastCall = "setSoundType"
    /\ emitCount = 0
    /\ lastNote = NoNote
    /\ bpmChanges = 0
    /\ reportedTo = NoCallback
    /\ touched = TRUE
    /\ bpbChanged = FALSE
    /\ startBpm = 0
    /\ startTime = 0
    /\ delivered = NoDelivery
    /\ returned = FALSE
    /\ settings = PracticeSettings(80, 200, 0, 4, 4)
    /\ soundType = Str("beep")
    /\ currentBpm = Num(80)
    /\ appIsPlaying = FALSE
    /\ alerts = 0
    /\ download = NoFile
    /\ exported = [settings |-> NoProps, soundType |-> Undefined]
    /\ imported = NoFile
    /\ appCurrentBeat = -1
    /\ updates = NoUpdates
    /\ effect = <<>>
    /\ dragging = "null"
    /\ pointer = 0

SetSoundType ==
    /\ Call("setSoundType")
    /\ \E type \in SoundTypes : Commit([Engine EXCEPT !.soundType = type])

NextSound ==
    \/ Start
    \/ SetSoundType
    \/ PollFire
    \/ Drain
    \/ PollArm
    \/ Tick
    \/ ContextResume

SpecSound == InitSound /\ [][NextSound]_vars

----------------------------------------------------------------------------
\* The scenario of the spec's section 8: the engine after
\* setOnBpmChange(c); setSettings(80, 4, 5, 1, 200), with a callback that
\* only returns, started once and left to run past 40 bars.

ScenarioMaxTime == 1400
ScenarioSettings == <<80, 4, 5, 1, 200>>

InitScenario ==
    /\ audioContext = "null"
    /\ isPlaying = FALSE
    /\ nextNoteTime = 0
    /\ currentBeat = 0
    /\ barCount = 0
    /\ timerID = 0
    /\ onBeatCallback = NoCallback
    /\ onBpmChangeCallback = "c1"
    /\ bpm = ScenarioSettings[1]
    /\ beatsPerBar = ScenarioSettings[2]
    /\ increaseAmount = ScenarioSettings[3]
    /\ increaseIntervalBars = ScenarioSettings[4]
    /\ maxBpm = ScenarioSettings[5]
    /\ engineSoundType = "beep"
    /\ sound = NoSound
    /\ now = 0
    /\ pollTimers = {}
    /\ beatTimers = <<>>
    /\ pc = "idle"
    /\ calls = MaxCalls - 1
    /\ lastCall = "setSettings"
    /\ emitCount = 0
    /\ lastNote = NoNote
    /\ bpmChanges = 0
    /\ reportedTo = NoCallback
    /\ touched = TRUE
    /\ bpbChanged = FALSE
    /\ startBpm = 0
    /\ startTime = 0
    /\ delivered = NoDelivery
    /\ returned = FALSE
    /\ settings = PracticeSettings(80, 200, 0, 4, 4)
    /\ soundType = Str("beep")
    /\ currentBpm = Num(80)
    /\ appIsPlaying = FALSE
    /\ alerts = 0
    /\ download = NoFile
    /\ exported = [settings |-> NoProps, soundType |-> Undefined]
    /\ imported = NoFile
    /\ appCurrentBeat = -1
    /\ updates = NoUpdates
    /\ effect = <<>>
    /\ dragging = "null"
    /\ pointer = 0

ScenarioCallback == BpmChangeCallbackDoing({"return"})

ScenarioTick == TickUntil(ScenarioMaxTime)

NextScenario ==
    \/ Start
    \/ PollFire
    \/ Drain
    \/ ScenarioCallback
    \/ PollArm
    \/ ScenarioTick
    \/ ContextResume

SpecScenario == InitScenario /\ [][NextScenario]_vars

----------------------------------------------------------------------------
\* The App component of src/App.tsx on the engine.  The component is mounted:
\* its first effects have handed its settings to the engine and registered
\* its two callbacks.  A state update asked for from a timer's task waits in
\* `updates` for the next render; a click is rendered with its handler.  The
\* settings effect of a render runs later, on its own, but before the next
\* render and before the next click is handled.  The dials are left alone.
\* Tempos are those of the engine above, so that a beat is a few ticks.

AppBeatsPerBarChoices == {1, 2}

\* What the component passes to audioEngine.setSettings with `tempo` first.
SettingsWith(tempo) ==
    <<tempo.num, settings["beatsPerBar"].num, settings["increaseAmount"].num,
      settings["increaseIntervalBars"].num, settings["maxBpm"].num>>

InitApp ==
    /\ \E bpb \in AppBeatsPerBarChoices :
          /\ settings = PracticeSettings(300, 500, 120, 1, bpb)
          /\ beatsPerBar = bpb
    /\ currentBpm = Num(300)
    /\ bpm = 300
    /\ increaseAmount = 120
    /\ increaseIntervalBars = 1
    /\ maxBpm = 500
    /\ soundType = Str("beep")
    /\ engineSoundType = "beep"
    /\ sound = NoSound
    /\ appIsPlaying = FALSE
    /\ isPlaying = FALSE
    /\ audioContext = "null"
    /\ nextNoteTime = 0
    /\ timerID = 0
    /\ pollTimers = {}
    /\ currentBeat = 0
    /\ barCount = 0
    /\ onBeatCallback = "c1"
    /\ onBpmChangeCallback = "c1"
    /\ now = 0
    /\ beatTimers = <<>>
    /\ pc = "idle"
    /\ calls = 0
    /\ lastCall = "setOnBpmChange"
    /\ emitCount = 0
    /\ lastNote = NoNote
    /\ bpmChanges = 0
    /\ reportedTo = NoCallback
    /\ touched = TRUE
    /\ bpbChanged = FALSE
    /\ startBpm = 0
    /\ startTime = 0
    /\ delivered = NoDelivery
    /\ returned = FALSE
    /\ alerts = 0
    /\ download = NoFile
    /\ exported = [settings |-> NoProps, soundType |-> Undefined]
    /\ imported = NoFile
    /\ appCurrentBeat = -1
    /\ updates = NoUpdates
    /\ effect = <<>>
    /\ dragging = "null"
    /\ pointer = 0

\* The effect of lines 27-35: what it does to the engine when it runs with
\* the currentBpm of its render.
settingsEffect(e, rendered) == setSettings(e, SettingsWith(rendered))

\* The engine once the pending effect, if any, has run.
EffectsFlushed(e) ==
    IF effect # <<>> THEN settingsEffect(e, Head(effect)) ELSE e

\* togglePlay() that starts the engine with the settings it has.
togglePlay_StartsOnly(e, created) ==
    IF ~appIsPlaying THEN start(e, created) ELSE stop(e)

\* togglePlay(), its calls on the engine.
togglePlay(e, created) ==
    IF ~appIsPlaying
    THEN start(setSettings(e, SettingsWith(settings["startBpm"])), created)
    ELSE stop(e)

\* The user clicks the play button: togglePlay() runs and its state updates
\* are rendered; an update of the same state asked for earlier is overridden.
TogglePlay ==
    /\ pc = "idle"
    /\ calls < MaxCalls
    /\ calls' = calls + 1
    /\ lastCall' = "togglePlay"
    /\ \E created \in {"running", "suspended"} :
          Commit(togglePlay(EffectsFlushed(Engine), created))
    /\ IF ~appIsPlaying
       THEN /\ currentBpm' = settings["startBpm"]
            /\ appIsPlaying' = TRUE
            /\ appCurrentBeat' = appCurrentBeat
            /\ updates' = [updates EXCEPT !.currentBpm = <<>>,
                                          !.isPlaying = <<>>]
       ELSE /\ currentBpm' = currentBpm
            /\ appIsPlaying' = FALSE
            /\ appCurrentBeat' = -1
            /\ updates' = [updates EXCEPT !.isPlaying = <<>>,
                                          !.currentBeat = <<>>]
    /\ effect' = IF currentBpm' # currentBpm THEN <<currentBpm'>> ELSE <<>>
    /\ UNCHANGED <<returned, now, delivered, settings, soundType, alerts, download,
                   exported, imported, circleVars>>

\* The callback of lines 43-46 runs inside the poll that ramped the tempo:
\* setCurrentBpm(newBpm).
AppBpmChange ==
    /\ pc = "callback"
    /\ lastCall' = "host"
    /\ Commit(onBpmChange(Engine, "return"))
    /\ updates' = [updates EXCEPT !.currentBpm = <<Num(bpm)>>]
    /\ UNCHANGED <<returned, now, calls, delivered, settings, soundType, currentBpm,
                   appIsPlaying, alerts, download, exported, imported, circleVars,
                   appCurrentBeat, effect>>

\* The oldest pending beat notification fires: the callback of lines 39-41
\* runs, setCurrentBeat(beat).
AppBeat ==
    /\ pc = "idle"
    /\ beatTimers # <<>>
    /\ lastCall' = "onBeat"
    /\ delivered' = [beat |-> Head(beatTimers).beat,
                     time |-> Head(beatTimers).time,
                     to |-> onBeatCallback]
    /\ Commit([Engine EXCEPT !.beatTimers = Tail(@)])
    /\ updates' = [updates EXCEPT !.currentBeat = <<Head(beatTimers).beat>>]
    /\ UNCHANGED <<returned, now, calls, settings, soundType, currentBpm, appIsPlaying,
                   alerts, download, exported, imported, circleVars,
                   appCurrentBeat,
                   effect>>

\* The state updates asked for are rendered; the settings effect is due when
\* currentBpm is not what the render before had.
Render ==
    /\ pc = "idle"
    /\ effect = <<>>
    /\ updates # NoUpdates
    /\ lastCall' = "render"
    /\ currentBpm' = IF updates.currentBpm # <<>>
                     THEN Head(updates.currentBpm) ELSE currentBpm
    /\ appIsPlaying' = IF updates.isPlaying # <<>>
                       THEN Head(updates.isPlaying) ELSE appIsPlaying
    /\ appCurrentBeat' = IF updates.currentBeat # <<>>
                         THEN Head(updates.currentBeat) ELSE appCurrentBeat
    /\ updates' = NoUpdates
    /\ effect' = IF currentBpm' # currentBpm THEN <<currentBpm'>> ELSE <<>>
    /\ Commit(Engine)
    /\ UNCHANGED <<returned, now, calls, delivered, settings, soundType, alerts,
                   download, exported, imported, circleVars>>

\* The pending settings effect runs.
RunEffect ==
    /\ pc = "idle"
    /\ effect # <<>>
    /\ lastCall' = "effect"
    /\ Commit(EffectsFlushed(Engine))
    /\ effect' = <<>>
    /\ UNCHANGED <<returned, now, calls, delivered, settings, soundType, currentBpm,
                   appIsPlaying, alerts, download, exported, imported, circleVars,
                   appCurrentBeat, updates>>

NextApp ==
    \/ TogglePlay
    \/ AppBpmChange
    \/ AppBeat
    \/ Render
    \/ RunEffect
    \/ PollFire
    \/ Drain
    \/ PollArm
    \/ Tick
    \/ ContextResume

SpecApp == InitApp /\ [][NextApp]_vars

----------------------------------------------------------------------------
\* The tempo range circle (src/components/TempoRangeCircle.tsx) in the App of
\* src/unnamed/part_000.  The pointer's place is given as the angle of the
\* line from the centre of the circle to it, in half degrees from the top,
\* clockwise: 2 * (atan2(deltaY, deltaX) * 180 / PI + 90), brought into
\* [0, 720).  The container is mounted while a handler can run.

MIN_BPM == 30
MAX_BPM == 300
START_ANGLE == 225
END_ANGLE == 495
TOTAL_ANGLE == END_ANGLE - START_ANGLE

\* Twice the effective angle: the top right part of the dial continues past
\* 360 degrees, the gap at the bottom snaps to the closer end.
EffectiveAngle(angle) ==
    LET wrapped == IF angle <= 2 * 135 THEN angle + 2 * 360 ELSE angle
        snapped == IF angle > 2 * 135 /\ angle < 2 * 225
                   THEN IF angle < 2 * 180
                        THEN 2 * END_ANGLE ELSE 2 * START_ANGLE
                   ELSE wrapped
    IN  Max(2 * START_ANGLE, Min(2 * END_ANGLE, snapped))

\* Math.round of a number of halves.
RoundHalves(x) == (x + 1) \div 2

calculateBpmFromPosition(angle) ==
    LET bpm2 == 2 * MIN_BPM
                  + ((EffectiveAngle(angle) - 2 * START_ANGLE)
                        * (MAX_BPM - MIN_BPM)) \div TOTAL_ANGLE
    IN  RoundHalves(Max(2 * MIN_BPM, Min(2 * MAX_BPM, bpm2)))

\* onMaxBpmChange(v) of the tempo dial.
onMaxBpmChange(a, v) == [a EXCEPT !.settings = Spread(@, "maxBpm", Num(v))]

\* handleMouseMove() that moves the handle it drags wherever the pointer is.
handleMove_Unguarded(a, type, newBpm) ==
    IF type = "start" THEN onStartBpmChange(a, newBpm)
    ELSE IF type = "max" THEN onMaxBpmChange(a, newBpm)
    ELSE a

\* handleMouseMove() and handleTouchMove(), past calculateBpmFromPosition().
handleMove(a, type, newBpm) ==
    IF type = "start"
    THEN IF newBpm <= a.settings["maxBpm"].num
         THEN onStartBpmChange(a, newBpm)
         ELSE a
    ELSE IF type = "max"
    THEN IF newBpm >= a.settings["startBpm"].num
         THEN onMaxBpmChange(a, newBpm)
         ELSE a
    ELSE a

\* Where the pointer is moved to: on the dial, on its ends, in the gap at the
\* bottom, and between two marks.
PointerAngles == {0, 1, 200, 270, 271, 359, 360, 449, 450, 451, 600, 719}

\* The App as the dials left it, stopped or playing.
InitCircle ==
    /\ InitPreset
    /\ soundType = Str("beep")

\* A handler of the circle runs.
CircleCall(name) ==
    /\ calls < MaxAppCalls
    /\ calls' = calls + 1
    /\ lastCall' = name
    /\ UNCHANGED <<engineVars, hostVars, emitCount, lastNote, bpmChanges,
                   reportedTo, touched, bpbChanged, startBpm, startTime,
                   delivered, sound, returned, reactVars, download, exported,
                   imported>>

\* handleMouseDown(type), handleTouchStart(type)
HandleDown ==
    /\ CircleCall("handleDown")
    /\ dragging' \in {"start", "max"}
    /\ UNCHANGED <<settings, soundType, currentBpm, appIsPlaying, alerts,
                   pointer>>

\* handleMouseMove(e), handleTouchMove(e)
HandleMove ==
    /\ CircleCall("handleMove")
    /\ dragging # "null"
    /\ \E angle \in PointerAngles :
          /\ pointer' = angle
          /\ CommitApp(handleMove(App, dragging,
                                  calculateBpmFromPosition(angle)))
    /\ UNCHANGED dragging

\* handleEnd()
HandleEnd ==
    /\ CircleCall("handleEnd")
    /\ dragging # "null"
    /\ dragging' = "null"
    /\ UNCHANGED <<settings, soundType, currentBpm, appIsPlaying, alerts,
                   pointer>>

NextCircle == HandleDown \/ HandleMove \/ HandleEnd

SpecCircle == InitCircle /\ [][NextCircle]_vars

----------------------------------------------------------------------------
\* The steps the properties below are about.

StartCalled == calls' = calls + 1 /\ lastCall' = "start"
StopCalled == calls' = calls + 1 /\ lastCall' = "stop"

\* C1: while the engine is running the beat index lies in [0, beatsPerBar),
\* also after a setSettings call that lowers beatsPerBar during playback.
C1_BeatIndexInBar ==
    isPlaying => (0 <= currentBeat /\ currentBeat < beatsPerBar)

\* The tempo after `bars` completed bars of a run whose settings were not
\* touched, and the scheduled time of its n-th note, in closed form.
RampSteps(bars) ==
    IF increaseAmount > 0 /\ increaseIntervalBars > 0
    THEN bars \div increaseIntervalBars
    ELSE 0

RampedTempo(bars) ==
    IF RampSteps(bars) = 0
    THEN startBpm
    ELSE Min(startBpm + RampSteps(bars) * increaseAmount, maxBpm)

RECURSIVE RegularTime(_)
RegularTime(n) ==
    IF n = 1
    THEN startTime + LeadIn
    ELSE RegularTime(n - 1)
             + SixtySeconds \div RampedTempo((n - 2) \div beatsPerBar)

\* C2: with the settings untouched since start(), the n-th note handed to the
\* sound backend is the n-th note of the regular sequence (index n-1 modulo
\* beatsPerBar, first at start + lead-in, then 60/tempo after its
\* predecessor, the tempo being that of the predecessor's bar), whenever the
\* polls fire: none is dropped, none emitted twice.
C2_PollTimingIrrelevant ==
    (~touched /\ emitCount > 0) =>
        lastNote = [beat |-> (emitCount - 1) % beatsPerBar,
                    time |-> RegularTime(emitCount)]

\* A poll that fires late, past the time of the note it is to emit, in a
\* run that has ramped.
C2_Witness ==
    /\ ~touched
    /\ pc = "loop"
    /\ emitCount >= 2
    /\ nextNoteTime + 1 <= now
    /\ bpm # startBpm

RampRun ==
    /\ ~touched
    /\ increaseAmount > 0
    /\ increaseIntervalBars >= 1
    /\ startBpm <= maxBpm

\* C3: in a run started with tempo <= ceiling, rampAmount > 0 and
\* rampIntervalBars >= 1 whose settings are not touched, the tempo after k
\* ramp boundaries is min(tempo + k * rampAmount, ceiling); it never
\* decreases and never exceeds the ceiling.
C3_RampSequence ==
    /\ [](RampRun =>
            /\ bpm = Min(startBpm
                           + (barCount \div increaseIntervalBars) * increaseAmount,
                         maxBpm)
            /\ bpm <= maxBpm)
    /\ [][(RampRun /\ RampRun') => bpm' >= bpm]_vars

\* Two steps of 120 from 300 under the ceiling of 500, and a bar past them.
C3_Witness ==
    /\ RampRun
    /\ startBpm = 300
    /\ barCount >= 3
    /\ bpm = maxBpm

\* C4: in the scenario 80 / 4 / 5 / 1 / 200 the tempo is 200 after 40
\* completed bars, 24 tempo changes are reported in all, and once the tempo
\* is at the ceiling a step neither changes it nor reports a change.
C4_CeilingScenario ==
    /\ [](barCount >= 40 => bpm = 200)
    /\ []((barCount >= 24 /\ pc # "callback") => bpmChanges = 24)
    /\ [][(bpm = maxBpm /\ pc # "callback") =>
            (bpm' = bpm /\ bpmChanges' = bpmChanges)]_vars

C4_Witness ==
    /\ barCount = 42
    /\ bpm = 200
    /\ bpmChanges = 24

\* C5: with rampAmount = 0 and no setSettings call since start(), the tempo
\* is the tempo at start() and no tempo change is reported.
C5_NoRampNoChange ==
    (~touched /\ increaseAmount = 0) => (bpm = startBpm /\ bpmChanges = 0)

\* Two bars of a run with rampAmount = 0 and a subscriber, at a tempo a ramp
\* step would clamp.
C5_Witness ==
    /\ ~touched
    /\ increaseAmount = 0
    /\ increaseIntervalBars = 1
    /\ onBpmChangeCallback # NoCallback
    /\ bpm > maxBpm
    /\ barCount >= 2

\* C6: with beatsPerBar unchanged since start(), the n-th emitted note has
\* index (n - 1) mod beatsPerBar: 0 first, then the predecessor's index plus
\* one modulo beatsPerBar.
C6_BeatCycle ==
    /\ [](( ~bpbChanged /\ emitCount > 0) =>
            lastNote.beat = (emitCount - 1) % beatsPerBar)
    /\ [][(~bpbChanged' /\ emitCount > 0 /\ emitCount' = emitCount + 1) =>
            lastNote'.beat = (lastNote.beat + 1) % beatsPerBar]_vars

\* More than a bar of three beats, the tempo changed on the way.
C6_Witness ==
    /\ ~bpbChanged
    /\ touched
    /\ beatsPerBar = 3
    /\ emitCount >= 4

\* C7: start() called on a stopped engine leaves it running with
\* beat index 0, bar count 0 and the next note at currentTime + lead-in.
C7_StartResetsCursor ==
    [][(StartCalled /\ ~isPlaying) =>
          /\ isPlaying'
          /\ currentBeat' = 0
          /\ barCount' = 0
          /\ nextNoteTime' = now' + LeadIn]_vars

\* A restart: 420 is a tempo only a ramp step of an earlier run produces.
C7_Witness ==
    /\ lastCall = "start"
    /\ pc = "loop"
    /\ bpm = 420
    /\ now >= 1
    /\ nextNoteTime = now + LeadIn

\* C8: start() called on a running engine changes nothing of the engine or
\* of the host's timers and emits no note.
C8_StartWhileRunningNoOp ==
    [][(StartCalled /\ isPlaying) =>
          UNCHANGED <<engineVars, hostVars, emitCount, lastNote>>]_vars

\* After a start() that returned at once (one that starts the engine leaves
\* it in scheduler()), mid-run.
C8_Witness ==
    /\ lastCall = "start"
    /\ pc = "idle"
    /\ isPlaying
    /\ emitCount >= 1
    /\ pollTimers # {}

\* C9: while the engine stays stopped no poll is pending, no note is emitted
\* and the cursor does not move.
C9_StopHalts ==
    /\ [](~isPlaying => pollTimers = {})
    /\ [][(~isPlaying /\ ~isPlaying') =>
            /\ emitCount' = emitCount
            /\ UNCHANGED <<nextNoteTime, currentBeat, barCount>>]_vars

\* C10: stop() called on a stopped engine changes neither the engine nor the
\* pending timers.
C10_StopWhileStoppedNoOp ==
    [][(StopCalled /\ ~isPlaying) =>
          UNCHANGED <<engineVars, pollTimers, beatTimers>>]_vars

\* C11: stop() leaves every armed beat notification armed; a notification is
\* removed only by firing, in arming order, and its firing hands the beat
\* index and the scheduled time it was armed with to the registered beat
\* callback, also when the engine has been stopped since.
C11_NotificationsSurviveStop ==
    /\ [][(StopCalled \/ (isPlaying /\ ~isPlaying')) =>
            beatTimers' = beatTimers]_vars
    /\ [][beatTimers' # beatTimers =>
            \/ /\ Len(beatTimers') = Len(beatTimers) + 1
               /\ SubSeq(beatTimers', 1, Len(beatTimers)) = beatTimers
            \/ /\ beatTimers # <<>>
               /\ beatTimers' = Tail(beatTimers)
               /\ onBeatCallback # NoCallback
               /\ delivered' = [beat |-> Head(beatTimers).beat,
                                time |-> Head(beatTimers).time,
                                to |-> onBeatCallback]]_vars

\* A notification armed before stop() has just been delivered to the callback
\* of a stopped engine, with no poll left.
C11_Witness ==
    /\ lastCall = "onBeat"
    /\ ~isPlaying
    /\ pollTimers = {}
    /\ delivered.beat = lastNote.beat
    /\ delivered.time = lastNote.time
    /\ delivered.to = onBeatCallback

\* C12: within a run every note handed to the sound backend has a scheduled
\* time strictly greater than that of the note before it, whatever ramp
\* steps and setSettings calls changed the tempo in between.
C12_EmissionTimesIncrease ==
    [][(emitCount > 0 /\ emitCount' = emitCount + 1) =>
          lastNote'.time > lastNote.time]_vars

\* Three notes of a run whose tempo was set during playback and then ramped.
C12_Witness ==
    /\ touched
    /\ emitCount >= 3
    /\ bpm = 420
    /\ barCount >= 1

\* C13: scheduler() leaves its loop only with no note due any more and with
\* the next poll armed, also when the sound backend threw on a note: the
\* cursor has moved past that note and the polls go on.
C13_EmissionFailureTolerated ==
    [][(pc = "loop" /\ pc' = "idle") =>
          /\ nextNoteTime' >= now' + scheduleAheadTime
          /\ timerID' \in pollTimers']_vars

\* C14: start() called on a stopped engine leaves it running, also when the
\* AudioContext cannot be constructed.
C14_StartWithoutAudio ==
    [][(StartCalled /\ ~isPlaying) => isPlaying']_vars

\* The step that imports the file of content `text`.
ImportCalled(text) ==
    /\ calls' = calls + 1
    /\ lastCall' = "importPreset"
    /\ imported' = text

\* The settings object a well-formed file holds, if it holds one.
SettingsOf(text) == Get(Parse(text), "settings")

\* JSON text whose top level is an object without a `settings` object.
LacksSettings(text) ==
    /\ ~ParseThrows(text)
    /\ Parse(text).type = "object"
    /\ SettingsOf(text).type # "object"

\* C15: importing a file that is a JSON object without a `settings` object
\* leaves settings and sound variant as they are and shows the user a
\* failure.
C15_ImportWithoutSettings ==
    [][\A text \in PresetFiles :
          (ImportCalled(text) /\ LacksSettings(text)) =>
              /\ UNCHANGED <<settings, soundType>>
              /\ alerts' = alerts + 1]_vars

\* C16: importing text that is no JSON shows the user a failure and leaves
\* settings, sound variant and current tempo as they are.
C16_ImportMalformed ==
    [][ImportCalled(Malformed) =>
          /\ alerts' = alerts + 1
          /\ UNCHANGED <<settings, soundType, currentBpm>>]_vars

\* A malformed file was imported into an App that an earlier import had
\* changed.
C16_Witness ==
    /\ lastCall = "importPreset"
    /\ imported = Malformed
    /\ alerts = 1
    /\ calls >= 2
    /\ soundType = Str("click")
    /\ settings["beatsPerBar"] = Num(6)

\* C17: importing the file exported last yields the settings and the sound
\* variant that were exported, field by field, whatever the App has become
\* in between.
C17_ExportImportRoundTrip ==
    [][(ImportCalled(download) /\ download # NoFile) =>
          /\ settings' = exported.settings
          /\ soundType' = exported.soundType]_vars

\* The file exported from an App with ramp settings and the drum set
\* selected was imported as the third step, one step after or before a
\* change of the settings.
C17_Witness ==
    /\ lastCall = "importPreset"
    /\ imported = download
    /\ calls = 3
    /\ soundType = Str("drumset")
    /\ settings = PracticeSettings(120, 200, 5, 4, 3)
    /\ exported.settings = settings

\* C18: importing a preset whose `settings` object has no `soundType`
\* makes the fields of that object the settings and leaves the sound
\* variant as it is.
C18_ImportWithoutSoundType ==
    [][\A text \in PresetFiles :
          (/\ ImportCalled(text)
           /\ ~ParseThrows(text)
           /\ Parse(text).type = "object"
           /\ SettingsOf(text).type = "object"
           /\ "soundType" \notin DOMAIN SettingsOf(text).props) =>
              /\ settings' = SettingsOf(text).props
              /\ soundType' = soundType]_vars

\* A preset of five fields and no soundType was imported over another sound
\* variant than the default.
C18_Witness ==
    /\ lastCall = "importPreset"
    /\ imported = Json(JObj(<<Member("settings", JObj(FileSettings))>>))
    /\ settings = PracticeSettings(100, 180, 2, 8, 6)
    /\ soundType = Str("cowbell")

\* C19: in every sound variant a note of beat index other than 0 sounds
\* different (in some source, frequency, filter or gain) from the note of
\* beat index 0 at the same tempo.
C19_AccentDistinct ==
    (emitCount > 0 /\ lastNote.beat # 0) =>
        sound # Sound(sound.type, 0, bpm)

SetSettingsCalled == calls' = calls + 1 /\ lastCall' = "setSettings"

\* C20: setSettings() assigns bpm, beatsPerBar, increaseAmount,
\* increaseIntervalBars and maxBpm in one step and nothing else: the running
\* flag, the cursor (beat index, bar count, time of the next note), the
\* timers and the notes already emitted are as before the call.
C20_SetSettingsFrame ==
    [][SetSettingsCalled =>
          /\ <<bpm', beatsPerBar', increaseAmount', increaseIntervalBars',
                maxBpm'>> \in SettingsChoices
          /\ UNCHANGED <<audioContext, isPlaying, nextNoteTime, currentBeat,
                         barCount, timerID, onBeatCallback,
                         onBpmChangeCallback, engineSoundType, hostVars,
                         emitCount, lastNote, sound, bpmChanges,
                         delivered>>]_vars

\* The tempo was doubled in mid-bar: the next note keeps the time it got
\* from the old tempo.
C20_Witness ==
    /\ lastCall = "setSettings"
    /\ isPlaying
    /\ pollTimers # {}
    /\ currentBeat = 1
    /\ bpm = 600
    /\ emitCount = 1
    /\ nextNoteTime = lastNote.time + SecondsPerBeat(300)

\* C21: a beat notification goes to the beat callback registered when it
\* fires, and a tempo-changed notification to the tempo callback registered
\* when the ramp step is taken: a callback that was replaced, the engine
\* stopped or running, is not invoked any more.
C21_SingleSubscriber ==
    /\ [][lastCall' = "onBeat" =>
            (delivered'.to = onBeatCallback /\ onBeatCallback' = onBeatCallback)]_vars
    /\ [][bpmChanges' = bpmChanges + 1 =>
            (reportedTo' = onBpmChangeCallback /\ reportedTo' # NoCallback)]_vars

\* A notification armed under the first beat callback went to the second,
\* registered while the engine was running.
C21_Witness ==
    /\ lastCall = "onBeat"
    /\ isPlaying
    /\ onBeatCallback = "c2"
    /\ delivered.to = "c2"
    /\ delivered.beat = lastNote.beat
    /\ emitCount = 1

\* C22: the engine has no audio context before its first start(), a start()
\* that finds none creates it, and a context once created is neither
\* released nor replaced, by stop() or by a later start(): the only change it
\* sees is the resume of a suspended context.
C22_ContextCreatedOnce ==
    /\ [](audioContext = "null" => (~isPlaying /\ emitCount = 0 /\ now = 0))
    /\ [][(audioContext = "null" /\ audioContext' # "null") => StartCalled]_vars
    /\ [][(audioContext = "null" /\ StartCalled) => audioContext' # "null"]_vars
    /\ [][audioContext # "null" => audioContext' \in {audioContext, "running"}]_vars

\* A start() after a stop(), made when the clock of the context created by
\* the first start() had already advanced.
C22_Witness ==
    /\ lastCall = "start"
    /\ isPlaying
    /\ startTime > 0
    /\ audioContext = "running"
    /\ nextNoteTime = now + LeadIn

\* C23: in a run with rampAmount > 0 and rampIntervalBars = N >= 1 whose
\* settings are not touched, the step that completes a bar takes a ramp step
\* (tempo := min(tempo + rampAmount, ceiling)) exactly when the bar count it
\* reaches is a multiple of N; no other step changes the tempo.
C23_RampAtMultiples ==
    [][(~touched /\ ~touched' /\ increaseAmount > 0 /\ increaseIntervalBars >= 1)
         => IF /\ barCount' = barCount + 1
               /\ barCount' % increaseIntervalBars = 0
            THEN bpm' = Min(bpm + increaseAmount, maxBpm)
            ELSE bpm' = bpm]_vars

\* With an interval of two bars the first bar left the tempo alone and the
\* second raised it.
C23_Witness ==
    /\ ~touched
    /\ increaseAmount = 120
    /\ increaseIntervalBars = 2
    /\ barCount = 2
    /\ startBpm = 300
    /\ bpm = 420

\* C24: while rampIntervalBars is 0, whatever rampAmount is, no step of the
\* engine itself (an emission, a bar completed, a timer) changes the tempo or
\* delivers a tempo-changed notification; the test of the interval comes
\* before the modulo, which is never taken by zero.
C24_ZeroIntervalNeverRamps ==
    [][(increaseIntervalBars = 0 /\ calls' = calls)
         => (bpm' = bpm /\ bpmChanges' = bpmChanges /\ pc' # "callback")]_vars

\* Two bars completed with an amount of 120, an interval of 0 and a
\* tempo-changed callback registered: the tempo is the one set.
C24_Witness ==
    /\ increaseIntervalBars = 0
    /\ increaseAmount = 120
    /\ onBpmChangeCallback # NoCallback
    /\ ~touched
    /\ barCount >= 2
    /\ bpm = 300
    /\ bpmChanges = 0

\* The step completes a bar at which the ramp guard of nextNote() holds.
RampBoundary ==
    /\ calls' = calls
    /\ barCount' = barCount + 1
    /\ increaseAmount > 0
    /\ increaseIntervalBars > 0
    /\ barCount' % increaseIntervalBars = 0

\* C25: with the tempo above the ceiling, a ramp boundary (rampAmount > 0)
\* sets the tempo to exactly the ceiling, which lowers it, and hands the
\* change to the tempo-changed callback registered; no other step of the
\* engine brings a tempo above the ceiling down.
C25_RampDownToCeiling ==
    /\ [][(bpm > maxBpm /\ RampBoundary)
            => /\ bpm' = maxBpm
               /\ bpm' < bpm
               /\ onBpmChangeCallback # NoCallback => pc' = "callback"]_vars
    /\ [][(pc = "callback" /\ bpm = maxBpm)
            => (bpmChanges' = bpmChanges + 1 /\ bpm' = bpm)]_vars
    /\ [][(bpm > maxBpm /\ calls' = calls /\ ~RampBoundary) => bpm' = bpm]_vars

\* A run started at 600 with the ceiling at 500 was brought down to 500 at
\* its first ramp boundary, and the callback was told.
C25_Witness ==
    /\ ~touched
    /\ startBpm = 600
    /\ maxBpm = 500
    /\ bpm = 500
    /\ bpmChanges = 1
    /\ barCount = increaseIntervalBars

\* C26: a tempo-changed notification is delivered inside the poll turn that
\* took the ramp step.  The turn has emitted the last beat of the bar it
\* completed; the delivery is the very next thing that happens, at the same
\* clock value, with the notification of that last beat still pending and
\* the downbeat of the next bar not yet emitted.
C26_ReportInsidePoll ==
    /\ [][pc' = "callback" =>
            (pc = "loop" /\ emitCount' = emitCount + 1 /\ barCount' = barCount + 1)]_vars
    /\ [](pc = "callback" =>
            /\ currentBeat = 0
            /\ lastNote.time < nextNoteTime
            /\ onBeatCallback # NoCallback =>
                  /\ beatTimers # <<>>
                  /\ beatTimers[Len(beatTimers)].beat = lastNote.beat
                  /\ beatTimers[Len(beatTimers)].time = lastNote.time)
    /\ [][pc = "callback" =>
            /\ bpmChanges' = bpmChanges + 1
            /\ now' = now
            /\ emitCount' = emitCount
            /\ lastNote' = lastNote
            /\ beatTimers' = beatTimers
            /\ delivered' = delivered]_vars
    /\ [][bpmChanges' = bpmChanges + 1 => pc = "callback"]_vars

\* The third beat of a three-beat bar was emitted, the ramp step reported,
\* and the notification of that third beat is still pending.
C26_Witness ==
    /\ pc = "loop"
    /\ bpmChanges = 1
    /\ beatsPerBar = 3
    /\ emitCount = 3
    /\ lastNote.beat = 2
    /\ currentBeat = 0
    /\ beatTimers # <<>>
    /\ beatTimers[Len(beatTimers)].beat = 2

\* C27: the advance that follows an emission adds 60 / tempo with the tempo
\* in force before the ramp check of that advance.  When the advance after
\* the last beat of a bar changes the tempo from t to t', the downbeat comes
\* 60 / t after that last beat, and the beat after the downbeat 60 / t'
\* after it.
C27_AdvanceByTempoInForce ==
    [][emitCount' = emitCount + 1 =>
          /\ lastNote'.time = nextNoteTime
          /\ nextNoteTime' = nextNoteTime + SecondsPerBeat(bpm)]_vars

\* One-beat bars ramping at every bar from 300: the downbeat after the step
\* to 420 was emitted 0.2 s after the beat before it, and the beat after
\* that downbeat is due 0.1 s later.
C27_Witness ==
    /\ ~touched
    /\ startBpm = 300
    /\ increaseIntervalBars = 1
    /\ beatsPerBar = 1
    /\ bpm = 500
    /\ emitCount = 2
    /\ lastNote.time = startTime + LeadIn + SecondsPerBeat(300)
    /\ nextNoteTime = lastNote.time + SecondsPerBeat(420)

\* The notification timer the emission of this step has to arm.
NotificationOf(note) ==
    [beat |-> note.beat, time |-> note.time,
     delay |-> Max(0, (note.time - now) * 50)]

\* C28: with a beat callback registered, the emission of a beat arms exactly
\* one notification timer, behind those already pending, with the beat
\* index and the scheduled time of the note emitted and a delay of
\* max(0, (scheduledTime - now) * 1000) ms, which is never negative; no
\* timer is armed without an emission or without a callback, and the
\* pending timers are in the order of their emissions.
C28_OneNotificationPerBeat ==
    /\ [][emitCount' = emitCount + 1 =>
            beatTimers' = IF onBeatCallback # NoCallback
                          THEN Append(beatTimers, NotificationOf(lastNote'))
                          ELSE beatTimers]_vars
    /\ [][Len(beatTimers') > Len(beatTimers) => emitCount' = emitCount + 1]_vars
    /\ [](\A i \in 1..Len(beatTimers) :
            /\ beatTimers[i].delay >= 0
            /\ \A j \in 1..(i - 1) : beatTimers[j].time < beatTimers[i].time)

\* A late poll emitted two beats in a row: the notification of the first,
\* whose time has passed, has no delay, that of the second 50 ms.
C28_Witness ==
    /\ onBeatCallback # NoCallback
    /\ emitCount = 2
    /\ Len(beatTimers) = 2
    /\ beatTimers[1].beat = 0
    /\ beatTimers[1].time < now
    /\ beatTimers[1].delay = 0
    /\ beatTimers[2].beat = 1
    /\ beatTimers[2].time = lastNote.time
    /\ beatTimers[2].delay = 50

\* C29: a poll that ran its loop leaves it with every beat due inside the
\* window emitted, i.e. with nextNoteTime >= now + scheduleAheadTime at the
\* clock value of the exit, also when the poll came late and several beats
\* were due, and whether or not a callback stopped the engine inside it.
C29_WindowDrained ==
    [][(pc = "loop" /\ pc' = "idle") =>
          /\ nextNoteTime' >= now' + scheduleAheadTime
          /\ now' = now
          /\ emitCount' = emitCount]_vars

\* A poll that came late, emitted three beats and left its loop.
C29_Witness ==
    /\ pc = "idle"
    /\ lastCall = "host"
    /\ isPlaying
    /\ timerID \in pollTimers
    /\ emitCount = 3
    /\ delivered = NoDelivery
    /\ Len(beatTimers) = 3
    /\ beatTimers[1].time + scheduleAheadTime < now
    /\ nextNoteTime >= now + scheduleAheadTime

C31_BeatsKeepComing ==
    /\ isPlaying ~> (~isPlaying \/ emitCount >= 2)
    /\ [][(pc = "loop" /\ pc' = "idle") =>
            (timerID' \in pollTimers' /\ timerID' \notin pollTimers)]_vars

\* The second beat of a run at the lower tempo was emitted by a poll armed
\* by the poll before it.
C31_Witness ==
    /\ isPlaying
    /\ bpm = 300
    /\ emitCount = 2
    /\ lastNote.time = startTime + LeadIn + SecondsPerBeat(300)
    /\ pc = "idle"
    /\ timerID \in pollTimers

\* C32: at most one poll timer is pending, and exactly one while the engine
\* is running and no poll is under way, after any start(), stop(), toggle()
\* and poll firings.
C32_OnePollChain ==
    /\ Cardinality(pollTimers) <= 1
    /\ (isPlaying /\ pc = "idle") => Cardinality(pollTimers) = 1

\* C33: in a run whose beatsPerBar is unchanged since start(), the bar count
\* goes up by exactly 1 when an emission wraps the beat index to 0 and at no
\* other time, so the notes emitted since start() number
\* barCount * beatsPerBar + currentBeat.
C33_BarCount ==
    /\ [](~bpbChanged => emitCount = barCount * beatsPerBar + currentBeat)
    /\ [][(~bpbChanged' /\ emitCount' = emitCount + 1) =>
            IF currentBeat' = 0
            THEN barCount' = barCount + 1
            ELSE barCount' = barCount /\ currentBeat' = currentBeat + 1]_vars
    /\ [][(emitCount' = emitCount /\ lastCall' # "start") =>
            barCount' = barCount]_vars

\* A bar of three beats and one beat more, the settings touched on the way.
C33_Witness ==
    /\ ~bpbChanged
    /\ touched
    /\ beatsPerBar = 3
    /\ barCount = 1
    /\ currentBeat = 1
    /\ emitCount = 4

\* C34: in the App, once the user has stopped playback the beat on display is
\* -1 and stays -1 until playback is started again, whenever the beat
\* notifications armed before the stop fire.
C34_NoBeatShownWhileStopped ==
    ~appIsPlaying => appCurrentBeat = -1

\* C35: while the App plays and its dials are left alone, the engine's tempo
\* never decreases, whenever the App's settings effect runs between the
\* engine's ramp steps.
C35_TempoNeverDecreases ==
    [][(isPlaying /\ isPlaying') => bpm' >= bpm]_vars

\* C36: start() and stop() leave the engine's tempo as it is, also the tempo a
\* ramp has reached; the App's play action hands settings.startBpm to the
\* engine before start(), so the run begins at startBpm and its first beat
\* interval is 60 / startBpm.
C36_RunsBeginAtStartBpm ==
    /\ [](\A created \in {"running", "suspended"} :
            /\ start(Engine, created).bpm = bpm
            /\ stop(Engine).bpm = bpm)
    /\ [][(lastCall' = "togglePlay" /\ isPlaying') =>
            /\ bpm' = settings["startBpm"].num
            /\ startBpm' = settings["startBpm"].num]_vars
    /\ [](emitCount = 1 =>
            nextNoteTime - lastNote.time =
                SecondsPerBeat(settings["startBpm"].num))

\* The first beat of a run started from the App after a run that had ramped:
\* the effect that takes the display back to startBpm is still pending.
C36_Witness ==
    /\ isPlaying
    /\ appIsPlaying
    /\ effect = <<settings["startBpm"]>>
    /\ bpm = settings["startBpm"].num
    /\ emitCount = 1
    /\ beatsPerBar = 2
    /\ nextNoteTime = lastNote.time + SecondsPerBeat(300)

ToggleCalled == calls' = calls + 1 /\ lastCall' = "toggle"

\* C37: toggle() flips the running state and returns the new one, true when
\* it started the engine and false when it stopped it; toggle() applied twice
\* in a row leaves the running state as it was.
C37_ToggleFlips ==
    /\ [][ToggleCalled =>
            /\ isPlaying' = ~isPlaying
            /\ returned' = isPlaying'
            /\ returned' = ~isPlaying]_vars
    /\ [](\A c1, c2 \in {"running", "suspended"} :
            toggle(toggle(Engine, c1), c2).isPlaying = isPlaying)

\* toggle() has just stopped a run that had emitted a note.
C37_Witness ==
    /\ lastCall = "toggle"
    /\ ~returned
    /\ ~isPlaying
    /\ emitCount >= 1

MoveCalled == calls' = calls + 1 /\ lastCall' = "handleMove"

\* C38: drags of the start and max handles keep startBpm <= maxBpm and both
\* within [30, 300]; a move that would take start above max, or max below
\* start, changes neither.
C38_DragsKeepRange ==
    /\ [](/\ settings["startBpm"].num <= settings["maxBpm"].num
          /\ MIN_BPM <= settings["startBpm"].num
          /\ settings["maxBpm"].num <= MAX_BPM)
    /\ [][MoveCalled =>
            LET newBpm == calculateBpmFromPosition(pointer') IN
            IF \/ dragging = "start" /\ newBpm > settings["maxBpm"].num
               \/ dragging = "max" /\ newBpm < settings["startBpm"].num
            THEN settings' = settings
            ELSE settings' = Spread(settings,
                                    IF dragging = "start"
                                    THEN "startBpm" ELSE "maxBpm",
                                    Num(newBpm))]_vars

\* The start handle was dragged to 105, and its next move, past the max
\* handle to the end of the dial, was ignored.
C38_Witness ==
    /\ lastCall = "handleMove"
    /\ dragging = "start"
    /\ settings["startBpm"].num = 105
    /\ settings["maxBpm"].num = 200
    /\ calculateBpmFromPosition(pointer) = MAX_BPM

====
